---- MODULE Spec2Model ----
(***************************************************************************)
(* Model of fastavro/bytes_speed_compare.pyx: the ByteReader struct, its   *)
(* two unchecked read primitives (read_byte, read_bytes) and the four      *)
(* routines that count the bytes equal to 'l' in a bytes object.           *)
(*                                                                         *)
(* A C pointer into the bytes object is modelled as a 0-based offset into  *)
(* the sequence s; s[i+1] is the byte at offset i.                         *)
(***************************************************************************)
EXTENDS Integers, Sequences, FiniteSets

\* ---------------------------------------------------------------- bounds
MaxLen == 3
MaxNum == 3
MaxPos == 4

\* The byte values buffers are built from: NUL, 'l' and 'l' with the high bit
\* set (a byte above 127).
ByteVals == {0, 108, 236}

\* What a routine handed back: <<v>> for the value v, <<>> for nothing.
None == <<>>
Val(v) == <<v>>

VARIABLES
    s,      \* the Python bytes object handed to the py_ wrappers (lines 53-63)
    br,     \* a ByteReader struct [data, pos, length] (lines 5-8) held by the
            \* caller of read_byte(&br), read_bytes(&br, n), count_ls_*(br)
    cbr,    \* the parameter br of count_ls_bytereader[_single]: the routine's
            \* own copy of the struct it was passed by value (lines 27, 34);
            \* NoReader while neither routine is running
    pc,     \* "idle", the name of the loop that is executing, or "crashed"
    op,     \* the routine called last
    num,    \* the num argument of the last call (0 when it takes none)
    p0,     \* pos of the struct the last routine was entered with
    ret,    \* the value the last routine returned, None while one is running
    count,  \* the local int count of the counting routine that is running
    i,      \* the local int i of count_ls_cdef
    fo,     \* the io.BytesIO object of count_ls_bytesio: [buf, pos]
    c,      \* the local bytes c of count_ls_bytesio
    out     \* the chars returned by read_byte(&br) calls made one after the
            \* other on a struct that was at pos 0, up to and including the
            \* first read outside the buffer; <<>> once the run is broken

vars == <<s, br, cbr, pc, op, num, p0, ret, count, i, fo, c, out>>

\* ------------------------------------------------------------ C values
\* A byte of the bytes object seen through const char* (char is signed on
\* the builds Cython targets by default: x86-64 gcc/clang/msvc).
ToChar(b) == IF b >= 128 THEN b - 256 ELSE b

\* Mutant: the cast keeps seven bits only.
ToUChar_7bit(x) == x % 128

\* The cast <unsigned char>(x) of line 46.
ToUChar(x) == x % 256

\* The literal b'l' compared against a char (lines 23, 30, 37, 46).
CharL == ToChar(108)

\* count += 1 on a C int (lines 24, 31, 38, 47): 32-bit two's complement.
IncInt(x) == IF x = 2147483647 THEN (-2147483647) - 1 ELSE x + 1

\* The values of a C char.
Chars == {ToChar(b) : b \in 0..255}

\* What a read through data[idx] can yield. Inside the object it is the
\* byte stored there. Outside it the read is undefined behaviour: whatever
\* the memory there holds, any char at all, or a memory fault that ends the
\* process (None: no char was read).
Deref(data, idx) ==
    IF idx >= 0 /\ idx < Len(data)
    THEN {Val(ToChar(data[idx + 1]))}
    ELSE {Val(x) : x \in Chars} \cup {None}

\* ByteReader(s, 0, len(s)) of lines 57 and 60.
NewByteReader(b) == [data |-> b, pos |-> 0, length |-> Len(b)]

\* Mutant: pos is advanced before the byte is fetched.
read_byte_preinc(r) ==
    { [br |-> [r EXCEPT !.pos = r.pos + 1], c |-> v] : v \in Deref(r.data, r.pos + 1) }

\* Mutant: the byte is fetched and pos is left where it was.
read_byte_stay(r) ==
    { [br |-> r, c |-> v] : v \in Deref(r.data, r.pos) }

\* read_byte (lines 10-13): no bounds check; c = data[pos], pos += 1.
\* The set of outcomes [br, c] of one call; a fault at line 11 leaves pos.
read_byte(r) ==
    { [br |-> IF v = None THEN r ELSE [r EXCEPT !.pos = r.pos + 1], c |-> v] :
        v \in Deref(r.data, r.pos) }

\* Mutant: pos is advanced by one byte too many.
read_bytes_plus1(r, n) ==
    LET r2 == [r EXCEPT !.pos = r.pos + n + 1]
    IN  [br |-> r2, ptr |-> r2.pos - (n + 1)]

\* Mutant: the pointer returned is the one after the advance.
read_bytes_after(r, n) ==
    LET r2 == [r EXCEPT !.pos = r.pos + n]
    IN  [br |-> r2, ptr |-> r2.pos]

\* Mutant: a request for no bytes still consumes one.
read_bytes_min1(r, n) ==
    LET m == IF n = 0 THEN 1 ELSE n
        r2 == [r EXCEPT !.pos = r.pos + m]
    IN  [br |-> r2, ptr |-> r2.pos - m]

\* Mutant: pos moves backwards (sign slip).
read_bytes_back(r, n) ==
    LET r2 == [r EXCEPT !.pos = r.pos - n]
    IN  [br |-> r2, ptr |-> r2.pos + n]

\* Mutant: a slice of more than one byte is cut to what fits the count
\* of one byte per call.
read_bytes_short(r, n) ==
    LET m == IF n > 1 THEN n - 1 ELSE n
        r2 == [r EXCEPT !.pos = r.pos + m]
    IN  [br |-> r2, ptr |-> r2.pos - m]

\* read_bytes (lines 15-17): no bounds check; pos += num, returns the
\* pointer data + (pos - num), here the offset pos - num.
read_bytes(r, n) ==
    LET r2 == [r EXCEPT !.pos = r.pos + n]
    IN  [br |-> r2, ptr |-> r2.pos - n]

\* Mutant: the loop runs one pass past the end.
LoopCond_le(r) == r.pos <= r.length

\* Mutant: the loop stops one byte short of the end.
LoopCond_short(r) == r.pos + 1 < r.length

\* The loop condition of lines 29 and 36.
LoopCond(r) == r.pos < r.length

\* fo.read(1) on an io.BytesIO (lines 42, 48): at most one byte, b"" at the end.
BytesIORead1(f) ==
    IF f.pos < Len(f.buf)
    THEN [fo |-> [f EXCEPT !.pos = f.pos + 1], bytes |-> <<f.buf[f.pos + 1]>>]
    ELSE [fo |-> f, bytes |-> <<>>]

\* ---------------------------------------------------------------- state
Buffers == UNION { [1..n -> ByteVals] : n \in 0..MaxLen }

NoFile == [buf |-> <<>>, pos |-> 0]

\* The value of cbr while no routine holds a copy of a struct.
NoReader == [data |-> <<>>, pos |-> 0, length |-> 0]

Init ==
    /\ s \in Buffers
    /\ br = NewByteReader(s)
    /\ cbr = NoReader
    /\ pc = "idle"
    /\ op = "new"
    /\ num = 0
    /\ p0 = 0
    /\ ret = None
    /\ count = 0
    /\ i = 0
    /\ fo = NoFile
    /\ c = <<>>
    /\ out = <<>>

\* ------------------------------------------------ the read primitives
\* A call read_byte(&br) made on the struct in whatever state it is in.
ReadByte ==
    /\ pc = "idle"
    /\ br.pos < MaxPos
    /\ \E o \in read_byte(br) :
        /\ br' = o.br
        /\ ret' = o.c
        /\ out' = IF o.c = None THEN out
                  ELSE IF Len(out) = br.pos /\ br.pos <= br.length
                       THEN Append(out, o.c[1])
                       ELSE <<>>
        /\ pc' = IF o.c = None THEN "crashed" ELSE pc
    /\ op' = "read_byte"
    /\ p0' = br.pos
    /\ num' = 0
    /\ UNCHANGED <<s, cbr, count, i, fo, c>>

\* A call read_bytes(&br, n), n >= 0.
ReadBytes ==
    /\ pc = "idle"
    /\ \E n \in 0..MaxNum :
        /\ br.pos + n <= MaxPos
        /\ br' = read_bytes(br, n).br
        /\ ret' = Val(read_bytes(br, n).ptr)
        /\ num' = n
        /\ out' = <<>>
    /\ op' = "read_bytes"
    /\ p0' = br.pos
    /\ UNCHANGED <<s, cbr, pc, count, i, fo, c>>

\* if x == b'l': count += 1, on the outcome v of reading x (lines 23-24,
\* 30-31, 37-38); a fault ends the process.
Tally(v) ==
    /\ pc' = IF v = None THEN "crashed" ELSE pc
    /\ count' = IF v = Val(CharL) THEN IncInt(count) ELSE count

\* ------------------------------------------- count_ls_bytereader (27-32)
\* Entry of the routine `loop`, called as `name`, with count = 0.
EnterCount(name, loop) ==
    /\ pc' = loop
    /\ op' = name
    /\ p0' = cbr'.pos
    /\ ret' = None
    /\ num' = 0
    /\ count' = 0
    /\ out' = <<>>

\* return count (lines 25, 32, 39, 49): the routine's locals are gone.
ReturnCount ==
    /\ ret' = Val(count)
    /\ pc' = "idle"
    /\ count' = 0
    /\ cbr' = NoReader

\* count_ls_bytereader(br): the struct is passed by value, the routine gets
\* a copy and the caller's struct is not touched.
CountLsBytereader ==
    /\ pc = "idle"
    /\ cbr' = br
    /\ EnterCount("count_ls_bytereader", "count_ls_bytereader")
    /\ UNCHANGED <<s, br, i, fo, c>>

\* py_count_ls_bytereader(s) (lines 56-57): a temporary struct over s is
\* passed.
PyCountLsBytereader ==
    /\ pc = "idle"
    /\ cbr' = NewByteReader(s)
    /\ EnterCount("py_count_ls_bytereader", "count_ls_bytereader")
    /\ UNCHANGED <<s, br, i, fo, c>>

\* One pass of the while body, lines 29-31: read_bytes(&br, 1)[0] == b'l'.
BytereaderStep ==
    /\ pc = "count_ls_bytereader"
    /\ LoopCond(cbr)
    /\ LET o == read_bytes(cbr, 1)
       IN  /\ cbr' = o.br
           /\ \E v \in Deref(cbr.data, o.ptr) : Tally(v)
    /\ UNCHANGED <<s, br, op, num, p0, ret, i, fo, c, out>>

\* Line 32, reached when the loop condition fails.
BytereaderReturn ==
    /\ pc = "count_ls_bytereader"
    /\ ~LoopCond(cbr)
    /\ ReturnCount
    /\ UNCHANGED <<s, br, op, num, p0, i, fo, c, out>>

\* ------------------------------------ count_ls_bytereader_single (34-39)
\* count_ls_bytereader_single(br), the struct passed by value.
CountLsBytereaderSingle ==
    /\ pc = "idle"
    /\ cbr' = br
    /\ EnterCount("count_ls_bytereader_single", "count_ls_bytereader_single")
    /\ UNCHANGED <<s, br, i, fo, c>>

\* py_count_ls_bytereader_single(s) (lines 59-60).
PyCountLsBytereaderSingle ==
    /\ pc = "idle"
    /\ cbr' = NewByteReader(s)
    /\ EnterCount("py_count_ls_bytereader_single", "count_ls_bytereader_single")
    /\ UNCHANGED <<s, br, i, fo, c>>

\* One pass of the while body, lines 36-38: read_byte(&br) == b'l'.
SingleStep ==
    /\ pc = "count_ls_bytereader_single"
    /\ LoopCond(cbr)
    /\ \E o \in read_byte(cbr) :
        /\ cbr' = o.br
        /\ Tally(o.c)
    /\ UNCHANGED <<s, br, op, num, p0, ret, i, fo, c, out>>

SingleReturn ==
    /\ pc = "count_ls_bytereader_single"
    /\ ~LoopCond(cbr)
    /\ ReturnCount
    /\ UNCHANGED <<s, br, op, num, p0, i, fo, c, out>>

\* -------------------------------------------------- count_ls_cdef (19-25)
\* py_count_ls_cdef(s) (lines 53-54): count_ls_cdef(s, len(s)); i = 0.
PyCountLsCdef ==
    /\ pc = "idle"
    /\ cbr' = cbr
    /\ EnterCount("py_count_ls_cdef", "count_ls_cdef")
    /\ i' = 0
    /\ UNCHANGED <<s, br, fo, c>>

\* One pass of for i in range(s_len), lines 22-24, s_len = len(s).
CdefStep ==
    /\ pc = "count_ls_cdef"
    /\ i < Len(s)
    /\ \E v \in Deref(s, i) : Tally(v)
    /\ i' = i + 1
    /\ UNCHANGED <<s, br, cbr, op, num, p0, ret, fo, c, out>>

CdefReturn ==
    /\ pc = "count_ls_cdef"
    /\ ~(i < Len(s))
    /\ ReturnCount
    /\ i' = 0
    /\ UNCHANGED <<s, br, op, num, p0, fo, c, out>>

\* ----------------------------------------------- count_ls_bytesio (41-49)
\* py_count_ls_bytesio(s) (lines 62-63): fo = io.BytesIO(s); c = fo.read(1).
PyCountLsBytesio ==
    /\ pc = "idle"
    /\ cbr' = cbr
    /\ EnterCount("py_count_ls_bytesio", "count_ls_bytesio")
    /\ LET r == BytesIORead1([buf |-> s, pos |-> 0])
       IN  fo' = r.fo /\ c' = r.bytes
    /\ UNCHANGED <<s, br, i>>

\* One pass of while c, lines 45-48.
BytesioStep ==
    /\ pc = "count_ls_bytesio"
    /\ c # <<>>
    /\ count' = IF ToUChar(ToChar(c[1])) = CharL THEN IncInt(count) ELSE count
    /\ LET r == BytesIORead1(fo)
       IN  fo' = r.fo /\ c' = r.bytes
    /\ UNCHANGED <<s, br, cbr, pc, op, num, p0, ret, i, out>>

BytesioReturn ==
    /\ pc = "count_ls_bytesio"
    /\ c = <<>>
    /\ ReturnCount
    /\ fo' = NoFile
    /\ UNCHANGED <<s, br, op, num, p0, i, c, out>>

\* ------------------------------------------------------- specification
LoopStep ==
    \/ BytereaderStep \/ BytereaderReturn
    \/ SingleStep \/ SingleReturn
    \/ CdefStep \/ CdefReturn
    \/ BytesioStep \/ BytesioReturn

Next ==
    \/ ReadByte
    \/ ReadBytes
    \/ CountLsBytereader
    \/ PyCountLsBytereader
    \/ CountLsBytereaderSingle
    \/ PyCountLsBytereaderSingle
    \/ PyCountLsCdef
    \/ PyCountLsBytesio
    \/ LoopStep

Spec == Init /\ [][Next]_vars

\* The routines are plain sequential loops: once entered, a loop's next
\* pass or its return is always taken.
LiveSpec == Spec /\ WF_vars(LoopStep)

\* ================================================================ claims
\* The routine named has been called and has returned.
Returned(name) == pc = "idle" /\ op = name

\* The two loops over a ByteReader, as values of pc.
ByteReaderLoops == {"count_ls_bytereader", "count_ls_bytereader_single"}

\* The calls of those loops on the caller's struct, and through the py_
\* wrappers, as values of op.
DirectCounts == {"count_ls_bytereader", "count_ls_bytereader_single"}
PyByteReaderCounts == {"py_count_ls_bytereader", "py_count_ls_bytereader_single"}
ByteReaderCounts == DirectCounts \cup PyByteReaderCounts

\* The number of offsets k in [from, len(b)) whose byte is t.
Matches(b, from, t) == Cardinality({k \in (from + 1)..Len(b) : b[k] = t})

\* The n bytes a pointer at offset ptr refers to (-1 where it leaves the object).
View(b, ptr, n) ==
    [k \in 1..n |-> IF ptr + k \in 1..Len(b) THEN b[ptr + k] ELSE -1]

\* The chars of a sequence as byte values.
Bytes(q) == [k \in 1..Len(q) |-> ToUChar(q[k])]

Min(a, b) == IF a < b THEN a ELSE b

\* The last call was a read on br that started within the buffer and asked
\* for no more than the bytes that remained.
CallRespectsBounds ==
    \/ op = "read_byte" /\ p0 < br.length
    \/ op = "read_bytes" /\ p0 + num <= br.length

\* C1 as stated: in every reachable state, whatever calls were made (a read
\* past the end included), 0 <= pos <= length.
C1_PositionWithinBuffer == 0 <= br.pos /\ br.pos <= br.length

\* C1 amended: pos is never negative, and pos <= length holds after every
\* read that started within the buffer and asked for no more than what
\* remained, and throughout every counting loop entered within the buffer;
\* no call is rejected.
C1_PositionWithinBufferIfRespected ==
    /\ 0 <= br.pos /\ 0 <= cbr.pos
    /\ CallRespectsBounds => br.pos <= br.length
    /\ (pc \in ByteReaderLoops /\ p0 <= cbr.length) => cbr.pos <= cbr.length

C1_Witness ==
    /\ op = "read_bytes" /\ num = 2 /\ p0 = 1
    /\ br.pos = 3 /\ br.length = 3

\* C2 as stated: read_byte at pos >= length returns nothing and leaves pos
\* alone; at pos < length it returns buffer[pos] and advances pos by 1.
C2_ReadByteChecked ==
    Returned("read_byte") =>
        IF p0 >= br.length
        THEN ret = None /\ br.pos = p0
        ELSE ret # None /\ ToUChar(ret[1]) = br.data[p0 + 1] /\ br.pos = p0 + 1

\* C2 amended: read_byte checks no bound: whenever it returns it returns a
\* byte and has advanced pos by exactly 1; when pos < length it does return,
\* and the byte is buffer[pos].
C2_ReadByteUnchecked ==
    /\ (op = "read_byte" /\ p0 < br.length) => pc = "idle"
    /\ Returned("read_byte") =>
        /\ ret # None
        /\ br.pos = p0 + 1
        /\ p0 < br.length => ToUChar(ret[1]) = br.data[p0 + 1]

C2_Witness ==
    /\ Returned("read_byte") /\ br.length = 2
    /\ p0 = br.length /\ br.pos = br.length + 1 /\ ret # None

\* C3 as stated: read_bytes asked for more than remains returns nothing and
\* does not advance pos.
C3_ReadSliceRejected ==
    (op = "read_bytes" /\ p0 + num > br.length) => (ret = None /\ br.pos = p0)

\* C3 amended: read_bytes checks no bound: also when fewer than num bytes
\* remain it advances pos by exactly num and returns the pointer to the old
\* position.
C3_ReadSliceUnchecked ==
    op = "read_bytes" => (ret = Val(p0) /\ br.pos = p0 + num)

C3_Witness ==
    /\ op = "read_bytes" /\ p0 = 2 /\ num = 2 /\ br.length = 3
    /\ br.pos = 4 /\ ret = Val(2)

\* C4 as stated: for every target byte t, a count started at p0 <= length
\* returns the number of offsets in [p0, length) holding t.
C4_CountAnyTarget ==
    (pc = "idle" /\ op \in ByteReaderCounts /\ p0 <= Len(s)) =>
        \A t \in 0..255 : ret = Val(Matches(s, p0, t))

\* C4 amended: the target is fixed to 'l' (0x6C): a count started at
\* p0 <= length returns the number of offsets in [p0, length) holding 'l'.
C4_CountL ==
    (pc = "idle" /\ op \in ByteReaderCounts /\ p0 <= Len(s)) =>
        ret = Val(Matches(s, p0, 108))

C4_Witness ==
    /\ Returned("count_ls_bytereader") /\ p0 = 1 /\ Len(s) = 3
    /\ s[1] = 108 /\ ret = Val(2)

\* C5 as stated: a count called on a struct with pos <= length returns a
\* result and on return that struct has pos = length.
C5_CallerCursorAtEnd ==
    (pc = "idle" /\ op \in DirectCounts /\ p0 <= br.length) =>
        (ret # None /\ br.pos = br.length)

\* C5 amended: a count entered with pos <= length never reads outside the
\* buffer (no fault); every pass of its loop reads inside the buffer and
\* moves pos of the routine's own copy of the struct forward by one; the
\* loop is left after finitely many passes, returning a result with the
\* copy at pos = length. The struct is passed by value: the caller's struct
\* keeps the pos it had.
C5_CountEndsOwnCopyAtEnd ==
    /\ []((op \in ByteReaderCounts /\ p0 <= Len(s)) => pc # "crashed")
    /\ []((pc = "idle" /\ op \in ByteReaderCounts) => ret # None)
    /\ [](op \in DirectCounts => br.pos = p0)
    /\ [][(pc \in ByteReaderLoops /\ pc' = pc) =>
            (cbr.pos < cbr.length /\ cbr'.pos = cbr.pos + 1 /\ br' = br)]_vars
    /\ [][(pc \in ByteReaderLoops /\ pc' = "idle" /\ p0 <= cbr.length) =>
            cbr.pos = cbr.length]_vars
    /\ (pc \in ByteReaderLoops) ~> (pc = "idle")

\* A count called on the caller's struct at pos 0 is about to return: its
\* copy is at the end, the caller's struct is not.
C5_Witness ==
    /\ pc = "count_ls_bytereader_single" /\ op \in DirectCounts /\ p0 = 0
    /\ cbr.length = 3 /\ cbr.pos = 3 /\ br.pos = 0 /\ count = 2

\* C6: read_bytes(k), k <= len(s), on a struct at position 0 returns a
\* pointer to the first k bytes of s and leaves len(s) - k bytes remaining.
C6_PrefixSlice ==
    (op = "read_bytes" /\ p0 = 0 /\ num <= Len(s)) =>
        /\ ret # None
        /\ View(br.data, ret[1], num) = SubSeq(s, 1, num)
        /\ br.length - br.pos = Len(s) - num

C6_Witness ==
    /\ op = "read_bytes" /\ p0 = 0 /\ num = 2 /\ Len(s) = 3
    /\ br.pos = 2 /\ s[1] # s[2]

\* The struct was new when the current run of read_byte calls began.
RunFromNew == pc = "idle" /\ op = "read_byte" /\ Len(out) = br.pos

\* C7 as stated: a run of read_byte calls on a new struct yields the bytes
\* of s in order and never more than len(s) of them (the next call fails).
C7_ReadAllThenFail ==
    RunFromNew =>
        /\ Len(out) <= Len(s)
        /\ Bytes(out) = SubSeq(s, 1, Len(out))

\* C7 amended: the first len(s) calls of the run yield the bytes of s in
\* order; the call after them is not rejected: it returns a byte as well.
C7_ReadAllNoFail ==
    RunFromNew =>
        LET n == Min(Len(out), Len(s))
        IN  Bytes(SubSeq(out, 1, n)) = SubSeq(s, 1, n)

C7_Witness ==
    /\ RunFromNew /\ Len(s) = 2 /\ Len(out) = 3
    /\ Bytes(SubSeq(out, 1, 2)) = s /\ s[1] # s[2]

\* C8: read_bytes(0) returns a pointer (to the current position) and leaves
\* pos where it was, in every state, the end of an empty buffer included.
C8_EmptySlice ==
    (op = "read_bytes" /\ num = 0) => (ret = Val(p0) /\ br.pos = p0)

C8_Witness ==
    /\ op = "read_bytes" /\ num = 0 /\ Len(s) = 0
    /\ br.pos = br.length /\ ret = Val(0)

\* The four py_count_ls_* entry points, as values of op.
PyCounts ==
    PyByteReaderCounts \cup {"py_count_ls_cdef", "py_count_ls_bytesio"}

\* C9: each of the four py_count_ls_* entry points returns the number of
\* bytes of s equal to 'l', so the four agree on every s.
C9_FourCountsAgree ==
    (pc = "idle" /\ op \in PyCounts) => ret = Val(Matches(s, 0, 108))

C9_Witness ==
    /\ Returned("py_count_ls_bytesio") /\ ret = Val(1)
    /\ s = <<0, 108, 236>>

\* C10: no step changes the buffer or the cached length of a struct; pos
\* is the only field that changes, and it never decreases: not in the
\* caller's struct, and not in a counting routine's copy while it runs.
C10_OnlyPosMovesForward ==
    /\ [](br.data = s /\ br.length = Len(s))
    /\ [](pc \in ByteReaderLoops => (cbr.data = s /\ cbr.length = Len(s)))
    /\ [][/\ s' = s
          /\ br'.data = br.data /\ br'.length = br.length
          /\ br'.pos >= br.pos
          /\ (pc \in ByteReaderLoops /\ pc' = pc) =>
                (/\ cbr'.data = cbr.data /\ cbr'.length = cbr.length
                 /\ cbr'.pos >= cbr.pos)]_vars

C10_Witness ==
    /\ op = "read_bytes" /\ num = 2 /\ p0 = 1 /\ br.pos = 3
    /\ br.data = s /\ br.length = Len(s)

====
